---- MODULE Spec2Model ----
(***************************************************************************)
(* A model of src/source.rs of include-wgsl-oil: the resolution of the     *)
(* entry shader (Sourcecode::new), the scan of the project's shaders       *)
(* (all_child_shaders, all_shaders_in_project) and the composition driver  *)
(* (Sourcecode::compose, Sourcecode::complete).                            *)
(*                                                                         *)
(* A file name is the sequence of its dot-separated parts ("a.wgsl" is     *)
(* <<"a", "wgsl">>), a path is a flag (absolute or not) and a sequence of  *)
(* names, a directory is a set of entries.  The filesystem holds no        *)
(* symbolic links and no "." or ".." components.  An Option is a sequence  *)
(* of length 0 (None) or 1 (Some).                                         *)
(***************************************************************************)
EXTENDS Integers, Sequences, FiniteSets, TLC

VARIABLES
    fs,                  \* the entries of the filesystem's root directory
    dir_order,           \* the order in which read_dir yields names
    CARGO_MANIFEST_DIR,  \* the environment variable: None or Some(path)
    invocation_path,     \* argument of Sourcecode::new
    requested_path,      \* argument of Sourcecode::new
    pc,                  \* the position of the request
    panic_msg,           \* the message of the panic that ended the request
    src,                 \* new's local `src`: io::Result<(String, PathBuf)>
    search_paths,        \* new's local `search_paths`
    reads,               \* the paths new has handed to read_to_string
    self,                \* the Sourcecode: None until new returns
    paths,               \* all_child_shaders' out-parameter `paths`
    shaders,             \* the vector all_shaders_in_project returned
    idx,                 \* compose's position in `shaders`
    composer,            \* the calls made to the naga_oil Composer
    ret,                 \* compose's return value: Option<naga::Module>
    module               \* the module complete hands to ShaderResult::new

vars == <<fs, dir_order, CARGO_MANIFEST_DIR, invocation_path, requested_path,
          pc, panic_msg, src, search_paths, reads, self, paths, shaders, idx,
          composer, ret, module>>

\* Bounds of the model.
MaxDepth == 2
MaxCauses == 2

None == <<>>
Some(v) == <<v>>

(***************************************************************************)
(* Paths (std::path)                                                       *)
(***************************************************************************)
Abs(comps) == [abs |-> TRUE, comps |-> comps]
Rel(comps) == [abs |-> FALSE, comps |-> comps]

\* Path::join: an absolute argument replaces the base.
join(base, p) ==
    IF p.abs THEN p ELSE [abs |-> base.abs, comps |-> base.comps \o p.comps]

\* Path::parent: None for "/" and for "".
parent(p) ==
    IF p.comps = <<>> THEN None
    ELSE Some([abs |-> p.abs, comps |-> SubSeq(p.comps, 1, Len(p.comps) - 1)])

\* Path::extension: the part of the file name after its last dot; None
\* without a file name, without a dot, or for a dot file such as ".wgsl".
extension(p) ==
    IF p.comps = <<>> THEN None
    ELSE LET file_name == p.comps[Len(p.comps)]
         IN  IF Len(file_name) = 1 THEN None
             ELSE IF Len(file_name) = 2 /\ file_name[1] = "" THEN None
             ELSE Some(file_name[Len(file_name)])

\* Path::strip_prefix
strip_prefix(p, base) ==
    IF /\ p.abs = base.abs
       /\ Len(base.comps) <= Len(p.comps)
       /\ SubSeq(p.comps, 1, Len(base.comps)) = base.comps
    THEN Some(Rel(SubSeq(p.comps, Len(base.comps) + 1, Len(p.comps))))
    ELSE None

(***************************************************************************)
(* The filesystem (std::fs)                                                *)
(***************************************************************************)
\* kind "file": a regular file, ok iff its text can be read;
\* kind "dir": a directory, ok iff it can be listed;
\* kind "other": neither (a socket, a fifo, a device).
File(name, ok) == [name |-> name, kind |-> "file", ok |-> ok, kids |-> {}]
Other(name) == [name |-> name, kind |-> "other", ok |-> FALSE, kids |-> {}]
Dir(name, ok, kids) == [name |-> name, kind |-> "dir", ok |-> ok, kids |-> kids]

\* The process's working directory, against which relative paths resolve.
Cwd == Abs(<<>>)

\* std::fs::canonicalize of a path that exists.
canonicalize(p) ==
    IF p.abs THEN p ELSE [abs |-> TRUE, comps |-> Cwd.comps \o p.comps]

RECURSIVE Walk(_, _)
Walk(entry, comps) ==
    IF comps = <<>> THEN Some(entry)
    ELSE IF entry.kind # "dir" THEN None
    ELSE LET m == {e \in entry.kids : e.name = Head(comps)}
         IN  IF m = {} THEN None
             ELSE Walk(CHOOSE e \in m : TRUE, Tail(comps))

\* The entry a path names, if any.
Node(p) == Walk(Dir(<<"">>, TRUE, fs), canonicalize(p).comps)

exists(p) == Node(p) # None
is_file(p) == Node(p) # None /\ Node(p)[1].kind = "file"
is_dir(p) == Node(p) # None /\ Node(p)[1].kind = "dir"

\* The text of a file is identified with the place it is stored at.
Text(p) == canonicalize(p).comps

Err == [ok |-> FALSE, text |-> <<>>, path |-> Rel(<<>>)]

\* std::fs::read_to_string
read_to_string(p) ==
    IF is_file(p) /\ Node(p)[1].ok
    THEN [ok |-> TRUE, text |-> Text(p)]
    ELSE [ok |-> FALSE, text |-> <<>>]

\* Path::read_dir: the names of a listable directory, in the order the
\* platform yields them; None when the directory cannot be read.
read_dir(p) ==
    IF is_dir(p) /\ Node(p)[1].ok
    THEN LET present == {e.name : e \in Node(p)[1].kids}
             here(n) == n \in present
         IN  Some(SelectSeq(dir_order, here))
    ELSE None

(***************************************************************************)
(* get_shader_extension, is_shader_extension, all_child_shaders            *)
(***************************************************************************)
get_shader_extension(path) ==
    LET e == extension(path)
    IN  IF e = None THEN None
        ELSE IF e[1] = "wgsl" THEN Some("Wgsl")
        ELSE IF e[1] = "glsl" THEN Some("Glsl")
        ELSE None

is_shader_extension(path) == get_shader_extension(path) # None

ScanPanic == [panic |-> TRUE, paths |-> <<>>]

\* A faulty variant of pushes: the extension alone decides.
pushes_by_extension(path) == is_shader_extension(path)

\* An entry that is a regular file with a shader extension is pushed.
pushes(path) == is_file(path) /\ is_shader_extension(path)

\* An entry that is not pushed and is a directory is recursed into.
recurses(path) == is_dir(path)

RECURSIVE all_child_shaders(_, _)
RECURSIVE scan_entries(_, _, _)
\* The body of all_child_shaders' for loop over the entries left to visit.
scan_entries(root, files, acc) ==
    IF files = <<>> THEN [panic |-> FALSE, paths |-> acc]
    ELSE LET path == join(root, Rel(<<Head(files)>>))
         IN  IF pushes(path)
             THEN scan_entries(root, Tail(files), Append(acc, canonicalize(path)))
             ELSE IF recurses(path)
             THEN LET r == all_child_shaders(path, acc)
                  IN  IF r.panic THEN r
                      ELSE scan_entries(root, Tail(files), r.paths)
             ELSE scan_entries(root, Tail(files), acc)

all_child_shaders(root, acc) ==
    LET read == read_dir(root)
    IN  IF read = None THEN ScanPanic
        ELSE scan_entries(root, read[1], acc)

\* all_shaders_in_project: the (absolute, relative to src) pairs, or the
\* message of the panic that ends it.
all_shaders_in_project ==
    IF CARGO_MANIFEST_DIR = None
    THEN [panic |-> "proc macros should be run using cargo",
          paths |-> <<>>, shaders |-> <<>>]
    ELSE LET joined == join(CARGO_MANIFEST_DIR[1], Rel(<<(<<"src">>)>>))
         IN  IF ~exists(joined)
             THEN [panic |-> "src root should exist for crate being compiled",
                   paths |-> <<>>, shaders |-> <<>>]
             ELSE LET src_root == canonicalize(joined)
                      r == all_child_shaders(src_root, <<>>)
                  IN  IF ~(exists(src_root) /\ is_dir(src_root))
                      THEN [panic |-> "could not find source directory when composing shader",
                            paths |-> <<>>, shaders |-> <<>>]
                      ELSE IF r.panic
                      THEN [panic |-> "could not read source directory",
                            paths |-> <<>>, shaders |-> <<>>]
                      ELSE IF \E i \in 1..Len(r.paths) :
                                  strip_prefix(r.paths[i], src_root) = None
                      THEN [panic |-> "all child paths are children",
                            paths |-> r.paths, shaders |-> <<>>]
                      ELSE [panic |-> "",
                            paths |-> r.paths,
                            shaders |-> [i \in 1..Len(r.paths) |->
                                <<r.paths[i],
                                  strip_prefix(r.paths[i], src_root)[1]>>]]

(***************************************************************************)
(* Sourcecode::new                                                         *)
(***************************************************************************)
\* A variant of read_with_path: the canonical path is kept with the text.
read_with_canonical_path(p) ==
    LET r == read_to_string(p)
    IN  IF r.ok THEN [ok |-> TRUE, text |-> r.text, path |-> canonicalize(p)]
        ELSE Err

\* std::fs::read_to_string(&p).map(|src| (src, p))
read_with_path(p) ==
    LET r == read_to_string(p)
    IN  IF r.ok THEN [ok |-> TRUE, text |-> r.text, path |-> p] ELSE Err

\* A faulty variant of try_read_alternate_path: the last success wins.
try_read_last_wins(result, alternate_path) ==
    IF read_to_string(alternate_path).ok
    THEN [ok |-> TRUE, text |-> Text(alternate_path), path |-> alternate_path]
    ELSE result

try_read_alternate_path(result, alternate_path) ==
    IF result.ok THEN result ELSE read_with_path(alternate_path)

\* The reads try_read_alternate_path makes.
reads_of(result, alternate_path) ==
    IF result.ok THEN <<>> ELSE <<alternate_path>>

\* A faulty variant of found: an empty source stands in for a missing one.
found_or_default(result) == TRUE

\* match src { Ok(src) => src, Err(_) => panic!(..) }
found(result) == result.ok

\* Self { src, source_path, invocation_path, errors, dependents }
Sourcecode(text, path, invocation) ==
    [src |-> text, source_path |-> path, invocation_path |-> invocation,
     errors |-> <<>>, dependents |-> <<>>]

\* Interpret as absolute
NewDirect ==
    /\ pc = "new"
    /\ src' = read_with_path(requested_path)
    /\ reads' = <<requested_path>>
    /\ search_paths' = invocation_path
    /\ pc' = "search"
    /\ UNCHANGED <<fs, dir_order, CARGO_MANIFEST_DIR, invocation_path,
                   requested_path, panic_msg, self, paths, shaders, idx,
                   composer, ret, module>>

\* Interpret as relative to invoking file: one turn of the loop
NewSearch ==
    /\ pc = "search"
    /\ LET alternate_path == join(search_paths, requested_path)
       IN  /\ src' = try_read_alternate_path(src, alternate_path)
           /\ reads' = reads \o reads_of(src, alternate_path)
    /\ IF parent(search_paths) = None
       THEN pc' = "root" /\ UNCHANGED search_paths
       ELSE pc' = "search" /\ search_paths' = parent(search_paths)[1]
    /\ UNCHANGED <<fs, dir_order, CARGO_MANIFEST_DIR, invocation_path,
                   requested_path, panic_msg, self, paths, shaders, idx,
                   composer, ret, module>>

\* Interpret as relative to root
NewRoot ==
    /\ pc = "root"
    /\ IF CARGO_MANIFEST_DIR = None
       THEN /\ pc' = "panic"
            /\ panic_msg' = "proc macros should be run using cargo"
            /\ UNCHANGED <<src, reads>>
       ELSE LET alternate_path == join(CARGO_MANIFEST_DIR[1], requested_path)
            IN  /\ src' = try_read_alternate_path(src, alternate_path)
                /\ reads' = reads \o reads_of(src, alternate_path)
                /\ pc' = "finish"
                /\ UNCHANGED panic_msg
    /\ UNCHANGED <<fs, dir_order, CARGO_MANIFEST_DIR, invocation_path,
                   requested_path, search_paths, self, paths, shaders, idx,
                   composer, ret, module>>

NewFinish ==
    /\ pc = "finish"
    /\ IF found(src)
       THEN /\ self' = Some(Sourcecode(src.text, src.path, invocation_path))
            /\ pc' = "resolved"
            /\ UNCHANGED panic_msg
       ELSE /\ pc' = "panic"
            /\ panic_msg' = "failed to find or read shader sourcecode"
            /\ UNCHANGED self
    /\ UNCHANGED <<fs, dir_order, CARGO_MANIFEST_DIR, invocation_path,
                   requested_path, src, search_paths, reads, paths, shaders,
                   idx, composer, ret, module>>

(***************************************************************************)
(* The naga_oil Composer: what it is called with and what it answers       *)
(***************************************************************************)
\* An error is the sequence of the texts of its cause chain, outermost first.
Chain(what, n) == <<what>> \o [i \in 1..n |-> "cause " \o ToString(i)]

\* The answers the composer can give: Ok, or an error with 0..MaxCauses
\* nested causes.
ComposerResults(what) ==
    {[ok |-> TRUE, err |-> <<>>]}
        \cup {[ok |-> FALSE, err |-> Chain(what, n)] : n \in 0..MaxCauses}

\* Error::source
source_of(e) == IF Len(e) > 1 THEN Some(Tail(e)) ELSE None

add_composable_module(source, file_path, language, as_name, res) ==
    [call |-> "add_composable_module", source |-> source,
     file_path |-> file_path, language |-> language, as_name |-> Some(as_name),
     res |-> res]

make_naga_module(source, file_path, res) ==
    [call |-> "make_naga_module", source |-> source, file_path |-> file_path,
     language |-> "Wgsl", as_name |-> None, res |-> res]

(***************************************************************************)
(* Sourcecode::compose and Sourcecode::complete                            *)
(***************************************************************************)
push_error(s, message) == [s EXCEPT !.errors = Append(@, message)]

RECURSIVE registration_chain(_, _)
\* while let Some(e) = e_base.source() { message = format!("{}: {}", message, e) }
registration_chain(message, e_base) ==
    IF source_of(e_base) = None THEN message
    ELSE registration_chain(message \o ": " \o source_of(e_base)[1][1],
                            source_of(e_base)[1])

\* The message of a module that failed to register.
registration_message(e) == registration_chain(e[1], e)

RECURSIVE entry_chain(_, _)
entry_chain(message, e_base) ==
    IF source_of(e_base) = None THEN message
    ELSE entry_chain(message \o ": " \o source_of(e_base)[1][1],
                     source_of(e_base)[1])

\* A faulty variant of entry_message: the innermost cause comes first.
entry_message_inner_first(e) ==
    IF Len(e) = 1 THEN e[1]
    ELSE entry_chain(e[Len(e)], [i \in 1..Len(e) |-> e[Len(e) + 1 - i]])

\* The message of an entry source that failed to compile.
entry_message(e) == entry_chain(e[1], e)

\* A faulty variant of after_registration: only a registered module becomes
\* a dependency.
after_registration_ok_only(s, absolute_path, res) ==
    IF res.ok THEN [s EXCEPT !.dependents = Append(@, absolute_path)]
    ELSE push_error(s, registration_message(res.err))

\* self.dependents.push(absolute_path); if let Err(e) = res { .. push_error }
after_registration(s, absolute_path, res) ==
    LET pushed == [s EXCEPT !.dependents = Append(@, absolute_path)]
    IN  IF res.ok THEN pushed
        ELSE push_error(pushed, registration_message(res.err))

\* A variant of not_registered: the entry file is passed over too.
not_registered_or_entry(s, absolute_path) ==
    \/ get_shader_extension(absolute_path) = None
    \/ ~read_to_string(absolute_path).ok
    \/ absolute_path = canonicalize(s.source_path)

\* The scanned files the loop passes over: None => continue, Err(_) => continue.
not_registered(s, absolute_path) ==
    \/ get_shader_extension(absolute_path) = None
    \/ ~read_to_string(absolute_path).ok

\* A faulty variant of skipped: the file passed over leaves a diagnostic.
skipped_with_diagnostic(s, c, absolute_path) ==
    [self |-> push_error(s, "could not read shader"), composer |-> c]

\* What `continue` leaves behind: nothing.
skipped(s, c, absolute_path) == [self |-> s, composer |-> c]

\* One turn of compose's for loop, on one (absolute_path, relative_path).
compose_iteration(s, c, item, res) ==
    LET absolute_path == item[1]
        relative_path == item[2]
        language == get_shader_extension(absolute_path)
        source == read_to_string(absolute_path)
    IN  IF not_registered(s, absolute_path) THEN skipped(s, c, absolute_path)
        ELSE [self |-> after_registration(s, absolute_path, res),
              composer |-> Append(c, add_composable_module(source.text,
                              absolute_path, language[1], relative_path, res))]

\* A faulty variant of entry_outcome: a failed compile leaves no diagnostic.
entry_outcome_silent(s, res) ==
    IF res.ok THEN [self |-> s, ret |-> Some([entry |-> s.src])]
    ELSE [self |-> s, ret |-> None]

\* match res { Ok(module) => Some(module), Err(e) => { push_error; None } }
entry_outcome(s, res) ==
    IF res.ok THEN [self |-> s, ret |-> Some([entry |-> s.src])]
    ELSE [self |-> push_error(s, entry_message(res.err)), ret |-> None]

\* naga::Module::default()
DefaultModule == [entry |-> <<>>]

\* A faulty variant of loop_finished: the entry is compiled at once.
loop_finished_early == TRUE

\* The for loop has visited every scanned file.
loop_finished == idx > Len(shaders)

\* compose: a default composer, then the scan of the project.
ComposeScan ==
    /\ pc = "resolved"
    /\ LET r == all_shaders_in_project
       IN  IF r.panic # ""
           THEN /\ pc' = "panic"
                /\ panic_msg' = r.panic
                /\ UNCHANGED <<paths, shaders, idx>>
           ELSE /\ pc' = "loop"
                /\ paths' = r.paths
                /\ shaders' = r.shaders
                /\ idx' = 1
                /\ UNCHANGED panic_msg
    /\ composer' = <<>>
    /\ UNCHANGED <<fs, dir_order, CARGO_MANIFEST_DIR, invocation_path,
                   requested_path, src, search_paths, reads, self, ret, module>>

ComposeLoop ==
    /\ pc = "loop"
    /\ ~loop_finished
    /\ \E res \in ComposerResults("module error") :
          LET r == compose_iteration(self[1], composer, shaders[idx], res)
          IN  /\ self' = Some(r.self)
              /\ composer' = r.composer
    /\ idx' = idx + 1
    /\ UNCHANGED <<fs, dir_order, CARGO_MANIFEST_DIR, invocation_path,
                   requested_path, pc, panic_msg, src, search_paths, reads,
                   paths, shaders, ret, module>>

ComposeMake ==
    /\ pc = "loop"
    /\ loop_finished
    /\ \E res \in ComposerResults("entry error") :
          LET r == entry_outcome(self[1], res)
          IN  /\ self' = Some(r.self)
              /\ ret' = r.ret
              /\ composer' = Append(composer,
                     make_naga_module(self[1].src, self[1].source_path, res))
    /\ pc' = "composed"
    /\ UNCHANGED <<fs, dir_order, CARGO_MANIFEST_DIR, invocation_path,
                   requested_path, panic_msg, src, search_paths, reads, paths,
                   shaders, idx, module>>

\* complete: self.compose().unwrap_or(naga::Module::default())
Complete ==
    /\ pc = "composed"
    /\ module' = Some(IF ret = None THEN DefaultModule ELSE ret[1])
    /\ pc' = "done"
    /\ UNCHANGED <<fs, dir_order, CARGO_MANIFEST_DIR, invocation_path,
                   requested_path, panic_msg, src, search_paths, reads, self,
                   paths, shaders, idx, composer, ret>>

(***************************************************************************)
(* The inputs: filesystems, arguments, environment                         *)
(***************************************************************************)
a_wgsl == <<"a", "wgsl">>
b_glsl == <<"b", "glsl">>
c_txt == <<"c", "txt">>
noext == <<"noext">>
e_wgsl_bak == <<"e", "wgsl", "bak">>
sub == <<"sub">>
d_wgsl == <<"d", "wgsl">>
p_dir == <<"p">>
q_dir == <<"q">>
src_dir == <<"src">>

\* The orders read_dir may yield names in.
NameOrder == <<a_wgsl, b_glsl, c_txt, noext, e_wgsl_bak, sub, d_wgsl>>
Orders ==
    {NameOrder, [i \in 1..Len(NameOrder) |-> NameOrder[Len(NameOrder) + 1 - i]]}

RECURSIVE Combos(_)
\* The directories that hold at most one entry of each of the given sets.
Combos(slots) ==
    IF slots = <<>> THEN {{}}
    ELSE {a \cup b : a \in {{}} \cup {{e} : e \in Head(slots)},
                     b \in Combos(Tail(slots))}

\* The filesystems whose /p/src is the given tree.
WithSrc(above_root, above_project, tree) ==
    above_root \cup {Dir(p_dir, TRUE, above_project \cup tree)}

\* The project trees of a request: a.wgsl readable or not, b.glsl, and a
\* directory sub that holds a.wgsl or cannot be listed.
RequestTrees ==
    Combos(<< {File(a_wgsl, TRUE), File(a_wgsl, FALSE)},
              {File(b_glsl, TRUE)},
              {Dir(sub, TRUE, {File(a_wgsl, TRUE)}), Dir(sub, FALSE, {})} >>)

RequestFs ==
    {WithSrc(r, q, s) :
        r \in Combos(<< {File(a_wgsl, TRUE)} >>),
        q \in Combos(<< {File(a_wgsl, TRUE)} >>),
        s \in {{}} \cup {{Dir(src_dir, TRUE, t)} : t \in RequestTrees}}

InvocationPaths ==
    {Abs(<<p_dir, src_dir, sub>>), Rel(<<p_dir, src_dir>>), Abs(<<q_dir>>)}

RequestedPaths ==
    {Rel(<<a_wgsl>>), Abs(<<p_dir, src_dir, a_wgsl>>), Rel(<<src_dir, a_wgsl>>)}

ProjectRoot == Abs(<<p_dir>>)

RECURSIVE ScanTrees(_)
\* The trees of depth d the scanner is applied to: every directory can be
\* listed; a.wgsl is a regular file or not one; one more file with another
\* name; a directory sub of depth d - 1; a directory d.wgsl holding a shader.
ScanTrees(d) ==
    IF d = 0 THEN {{}}
    ELSE Combos(<< {File(a_wgsl, TRUE), Other(a_wgsl)},
                   {File(b_glsl, TRUE), File(c_txt, TRUE), File(noext, TRUE),
                    File(e_wgsl_bak, TRUE)},
                   {Dir(sub, TRUE, k) : k \in ScanTrees(d - 1)},
                   {Dir(d_wgsl, TRUE, {File(a_wgsl, TRUE)})} >>)

ScanRoot == Abs(<<p_dir, src_dir>>)

(***************************************************************************)
(* The request: Sourcecode::new, then Sourcecode::complete                 *)
(***************************************************************************)
Init ==
    /\ fs \in RequestFs
    /\ dir_order \in Orders
    /\ CARGO_MANIFEST_DIR \in {None, Some(ProjectRoot)}
    /\ invocation_path \in InvocationPaths
    /\ requested_path \in RequestedPaths
    /\ pc = "new"
    /\ panic_msg = ""
    /\ src = Err
    /\ search_paths = invocation_path
    /\ reads = <<>>
    /\ self = None
    /\ paths = <<>>
    /\ shaders = <<>>
    /\ idx = 0
    /\ composer = <<>>
    /\ ret = None
    /\ module = None

Next ==
    \/ NewDirect
    \/ NewSearch
    \/ NewRoot
    \/ NewFinish
    \/ ComposeScan
    \/ ComposeLoop
    \/ ComposeMake
    \/ Complete

Spec == Init /\ [][Next]_vars

(***************************************************************************)
(* The scanner alone, applied to every tree of ScanTrees(MaxDepth)         *)
(***************************************************************************)
InitScan ==
    /\ fs \in {WithSrc({}, {}, {Dir(src_dir, TRUE, t)}) : t \in ScanTrees(MaxDepth)}
    /\ dir_order \in Orders
    /\ CARGO_MANIFEST_DIR = Some(ProjectRoot)
    /\ invocation_path = ScanRoot
    /\ requested_path = Rel(<<a_wgsl>>)
    /\ pc = "scan"
    /\ panic_msg = ""
    /\ src = Err
    /\ search_paths = invocation_path
    /\ reads = <<>>
    /\ self = None
    /\ paths = <<>>
    /\ shaders = <<>>
    /\ idx = 0
    /\ composer = <<>>
    /\ ret = None
    /\ module = None

\* all_child_shaders(src_root.clone(), &mut paths)
ScanTree ==
    /\ pc = "scan"
    /\ LET r == all_child_shaders(ScanRoot, <<>>)
       IN  IF r.panic
           THEN /\ pc' = "panic"
                /\ panic_msg' = "could not read source directory"
                /\ UNCHANGED paths
           ELSE /\ pc' = "scanned"
                /\ paths' = r.paths
                /\ UNCHANGED panic_msg
    /\ UNCHANGED <<fs, dir_order, CARGO_MANIFEST_DIR, invocation_path,
                   requested_path, src, search_paths, reads, self, shaders,
                   idx, composer, ret, module>>

NextScan == ScanTree

SpecScan == InitScan /\ [][NextScan]_vars

(***************************************************************************)
(* What the claims speak of                                                *)
(***************************************************************************)
Range(s) == {s[i] : i \in 1..Len(s)}

RECURSIVE Ancestors(_)
\* A directory and its successive parents, nearest first.
Ancestors(p) ==
    <<p>> \o (IF parent(p) = None THEN <<>> ELSE Ancestors(parent(p)[1]))

\* The directories requested_path is joined with, in the order of the search.
Bases ==
    Ancestors(invocation_path)
        \o (IF CARGO_MANIFEST_DIR = None THEN <<>> ELSE <<CARGO_MANIFEST_DIR[1]>>)

\* The resolver's candidates: direct, the invoker's ancestors, the project root.
Candidates ==
    <<requested_path>> \o [i \in 1..Len(Bases) |-> join(Bases[i], requested_path)]

Readable(p) == read_to_string(p).ok

\* The index of the first readable path of a sequence, 0 when there is none.
FirstReadableOf(c) ==
    IF \E i \in 1..Len(c) : Readable(c[i])
    THEN CHOOSE i \in 1..Len(c) :
            Readable(c[i]) /\ \A j \in 1..(i - 1) : ~Readable(c[j])
    ELSE 0

\* The index of the first readable candidate, 0 when there is none.
FirstReadable == FirstReadableOf(Candidates)

NewReturned == self # None
NewPanicked == pc = "panic" /\ self = None
Composing == pc \in {"loop", "composed", "done"}
Composed == pc \in {"composed", "done"}

\* The file the entry source was read from.
EntryFile == canonicalize(self[1].source_path)

AddCalls == SelectSeq(composer, LAMBDA c : c.call = "add_composable_module")
MakeCalls == SelectSeq(composer, LAMBDA c : c.call = "make_naga_module")
FailedCalls == SelectSeq(composer, LAMBDA c : ~c.res.ok)
FailedAdds == SelectSeq(AddCalls, LAMBDA c : ~c.res.ok)

RECURSIVE Flatten(_)
\* text(e0) + ": " + text(e1) + ... + ": " + text(en)
Flatten(e) == IF Len(e) = 1 THEN e[1] ELSE e[1] \o ": " \o Flatten(Tail(e))

RECURSIVE ShaderFilesUnder(_, _)
\* The regular files named *.wgsl or *.glsl of a tree, at any depth.
ShaderFilesUnder(tree, prefix) ==
    {prefix \o <<e.name>> : e \in {f \in tree :
        /\ f.kind = "file"
        /\ Len(f.name) >= 2
        /\ f.name[Len(f.name)] \in {"wgsl", "glsl"}}}
    \cup UNION {ShaderFilesUnder(e.kids, prefix \o <<e.name>>) :
                    e \in {d \in tree : d.kind = "dir"}}

(***************************************************************************)
(* The claims                                                              *)
(***************************************************************************)

\* C1: first success wins.  As soon as new holds a result, and when it has
\* returned, the text and the path are those of the first readable candidate
\* of the ordered list, and the reads made are the candidates up to that one
\* and no later one.
C1_FirstSuccessWins ==
    LET c == Candidates
        k == FirstReadableOf(c)
    IN  /\ (pc # "new" /\ src.ok) =>
              /\ k > 0
              /\ src.path = c[k]
              /\ src.text = Text(c[k])
              /\ reads = SubSeq(c, 1, k)
        /\ NewReturned =>
              /\ self[1].source_path = c[k]
              /\ self[1].src = Text(c[k])

\* C1's case: the direct interpretation and a later candidate are both
\* readable and are different files.
C1_Witness ==
    LET c == Candidates
    IN  /\ NewReturned
        /\ Readable(c[1])
        /\ \E i \in 2..Len(c) :
              /\ Readable(c[i])
              /\ canonicalize(c[i]) # canonicalize(c[1])
        /\ self[1].source_path = requested_path

\* C2 as stated: after compose, the entry file is absent from dependencies.
C2_EntryNotADependency ==
    Composed => EntryFile \notin Range(self[1].dependents)

\* C2 as amended: after compose, the entry file is listed in dependencies
\* exactly when it is one of the scanned paths with a shader extension.
C2_EntryListedWhenScanned ==
    Composed =>
        (EntryFile \in Range(self[1].dependents)
            <=> EntryFile \in {f \in Range(paths) : is_shader_extension(f)})

\* C2's case, Scenario 1: a.wgsl is the entry, b.glsl its sibling, nothing
\* fails, and both are dependencies.
C2_Witness ==
    /\ pc = "done"
    /\ self[1].source_path = Abs(<<p_dir, src_dir, a_wgsl>>)
    /\ Range(self[1].dependents) =
          {Abs(<<p_dir, src_dir, a_wgsl>>), Abs(<<p_dir, src_dir, b_glsl>>)}
    /\ self[1].errors = <<>>

\* C3 as stated: once new has returned, source_path is absolute and canonical.
C3_ResolvedPathCanonical ==
    NewReturned =>
        /\ self[1].source_path.abs
        /\ self[1].source_path = canonicalize(self[1].source_path)

\* C3 as amended: once new has returned, source_path is the path of the last
\* read exactly as it was built (requested_path itself, or a base directory
\* joined with it), not its canonical form: it is absolute exactly when
\* requested_path or the base it was joined with is absolute, and the file it
\* names is the readable file whose text is src.
C3_ResolvedPathAsBuilt ==
    NewReturned =>
        LET k == Len(reads)
            source_path == self[1].source_path
        IN  /\ source_path = reads[k]
            /\ source_path = (IF k = 1 THEN requested_path
                              ELSE join(Bases[k - 1], requested_path))
            /\ source_path.abs <=>
                  (requested_path.abs \/ (k > 1 /\ Bases[k - 1].abs))
            /\ Readable(source_path)
            /\ self[1].src = Text(source_path)

\* C3's case: a process-relative requested_path read directly, and a
\* relative path stored.
C3_Witness ==
    /\ NewReturned
    /\ ~requested_path.abs
    /\ Len(reads) = 1
    /\ ~self[1].source_path.abs

\* C4 as stated: new panics if and only if no candidate is readable, and
\* otherwise returns a unit with no diagnostics and no dependencies.
C4_PanicsIffNoCandidate ==
    /\ (NewPanicked \/ pc = "resolved") => (NewPanicked <=> FirstReadable = 0)
    /\ pc = "resolved" =>
          self[1].errors = <<>> /\ self[1].dependents = <<>>

\* C4 as amended: new panics if and only if CARGO_MANIFEST_DIR is not set or
\* no candidate is readable, and otherwise returns a unit with no diagnostics
\* and no dependencies.
C4_PanicsIffNoRootOrNoCandidate ==
    /\ (NewPanicked \/ pc = "resolved") =>
          (NewPanicked <=> (CARGO_MANIFEST_DIR = None \/ FirstReadable = 0))
    /\ pc = "resolved" =>
          self[1].errors = <<>> /\ self[1].dependents = <<>>

\* C4's case: the variable is set, every candidate was read, none is
\* readable, and new has panicked.
C4_Witness ==
    /\ NewPanicked
    /\ CARGO_MANIFEST_DIR # None
    /\ reads = Candidates
    /\ Len(Candidates) > 3
    /\ panic_msg = "failed to find or read shader sourcecode"

\* C5: the dependencies are the scanned files whose text can be read, in scan
\* order, whatever the composer answered.
C5_DependenciesAreReadableScanned ==
    Composing =>
        self[1].dependents =
            SelectSeq(SubSeq(paths, 1, idx - 1), Readable)

\* C5's case: a module failed to register and is a dependency all the same.
C5_Witness ==
    /\ pc = "done"
    /\ \E i \in 1..Len(composer) :
          /\ composer[i].call = "add_composable_module"
          /\ ~composer[i].res.ok
          /\ composer[i].file_path \in Range(self[1].dependents)
    /\ Len(self[1].dependents) >= 2

\* C6: failures are accumulated and abort nothing.  Every readable scanned
\* file is registered, failures before it or not; each failed call has added
\* exactly one diagnostic; the entry compile is the last call; when it fails
\* compose returns None and complete hands over the default module, when it
\* succeeds the validated module is handed over.
C6_FailuresAccumulate ==
    /\ Composing =>
          /\ Len(self[1].errors) = Len(FailedCalls)
          /\ Len(AddCalls) = Len(SelectSeq(SubSeq(paths, 1, idx - 1), Readable))
    /\ Composed =>
          LET make == composer[Len(composer)]
          IN  /\ idx = Len(shaders) + 1
              /\ make.call = "make_naga_module"
              /\ Len(self[1].errors) = Len(FailedAdds) + (IF make.res.ok THEN 0 ELSE 1)
              /\ make.res.ok => ret = Some([entry |-> self[1].src])
              /\ ~make.res.ok => ret = None
              /\ pc = "done" =>
                    module = Some(IF make.res.ok THEN [entry |-> self[1].src]
                                  ELSE DefaultModule)

\* C6's case: a module failed to register, a later one registered, the entry
\* failed to compile, and the default module was handed over.
C6_Witness ==
    /\ pc = "done"
    /\ \E i, j \in 1..Len(AddCalls) :
          i < j /\ ~AddCalls[i].res.ok /\ AddCalls[j].res.ok
    /\ ~composer[Len(composer)].res.ok
    /\ Len(self[1].errors) = 2
    /\ module = Some(DefaultModule)

\* C7 as stated: no add_composable_module call is made for the entry file,
\* and make_naga_module is called only after the loop has visited every
\* scanned file.
C7_EntryNeverRegistered ==
    Composing =>
        /\ \A i \in 1..Len(AddCalls) : AddCalls[i].file_path # EntryFile
        /\ MakeCalls # <<>> => idx > Len(shaders)

\* C7 as amended: the entry file is registered with the composer exactly when
\* it is one of the scanned paths with a shader extension, under its name
\* relative to src; and
\* make_naga_module is called once, with the entry source, as the last call,
\* only after the loop has visited every scanned file.
C7_EntryRegisteredWhenScanned ==
    /\ Composing =>
          /\ Len(MakeCalls) = (IF Composed THEN 1 ELSE 0)
          /\ MakeCalls # <<>> =>
                /\ idx > Len(shaders)
                /\ composer[Len(composer)] = MakeCalls[1]
                /\ MakeCalls[1].source = self[1].src
                /\ MakeCalls[1].file_path = self[1].source_path
    /\ Composed =>
          /\ (\E i \in 1..Len(AddCalls) : AddCalls[i].file_path = EntryFile)
                <=> EntryFile \in {f \in Range(paths) : is_shader_extension(f)}
          /\ \A i \in 1..Len(AddCalls) :
                AddCalls[i].as_name =
                    strip_prefix(AddCalls[i].file_path, ScanRoot)

\* C7's case: the entry file lies in the scanned tree, was registered as a
\* module, and was then compiled.
C7_Witness ==
    /\ pc = "done"
    /\ \E i \in 1..Len(AddCalls) :
          /\ AddCalls[i].file_path = EntryFile
          /\ AddCalls[i].source = self[1].src
    /\ Len(AddCalls) >= 2
    /\ composer[Len(composer)].call = "make_naga_module"

\* C8: on a tree whose directories can all be listed, all_child_shaders
\* returns exactly the regular files named *.wgsl or *.glsl, at any depth,
\* each once.
C8_ScannerExact ==
    /\ pc \in {"scan", "scanned"}
    /\ pc = "scanned" =>
          /\ \A i \in 1..Len(paths) : paths[i].abs
          /\ {paths[i].comps : i \in 1..Len(paths)} =
                ShaderFilesUnder(Node(ScanRoot)[1].kids, ScanRoot.comps)
          /\ \A i, j \in 1..Len(paths) : paths[i] = paths[j] => i = j

\* C8's case: shaders at three depths are returned, with a non-regular entry
\* named a.wgsl and a file without a shader extension left out.
C8_Witness ==
    /\ pc = "scanned"
    /\ Abs(<<p_dir, src_dir, b_glsl>>) \in Range(paths)
    /\ Abs(<<p_dir, src_dir, d_wgsl, a_wgsl>>) \in Range(paths)
    /\ Abs(<<p_dir, src_dir, sub, d_wgsl, a_wgsl>>) \in Range(paths)
    /\ Abs(<<p_dir, src_dir, sub, a_wgsl>>) \in Range(paths)
    /\ exists(Abs(<<p_dir, src_dir, a_wgsl>>))
    /\ exists(Abs(<<p_dir, src_dir, sub, e_wgsl_bak>>))
    /\ Len(paths) = 4

\* C9: the diagnostics are, in order, the flattened cause chains of the
\* failed calls, module registrations and entry compilation alike:
\* text(e0): text(e1): ... : text(en).
C9_DiagnosticsFlattened ==
    Composing =>
        self[1].errors =
            [i \in 1..Len(FailedCalls) |-> Flatten(FailedCalls[i].res.err)]

\* C9's case: a three-level chain from a registration and one from the entry
\* compilation.
C9_Witness ==
    /\ pc = "done"
    /\ Len(self[1].errors) = 2
    /\ self[1].errors[1] = "module error: cause 1: cause 2"
    /\ self[1].errors[2] = "entry error: cause 1: cause 2"

\* C10: a turn of the loop on a scanned file whose text cannot be read
\* changes neither the unit (diagnostics, dependencies) nor the composer, and
\* moves on to the next scanned file.
C10_UnreadableSkipped ==
    [][(pc = "loop" /\ ~loop_finished /\ ~Readable(shaders[idx][1])) =>
          /\ self' = self
          /\ composer' = composer
          /\ idx' = idx + 1
          /\ pc' = "loop"]_vars

\* C10's case: an unreadable scanned file was passed over and the file after
\* it was registered.
C10_Witness ==
    /\ pc = "loop"
    /\ \E j \in 1..(idx - 2) :
          /\ ~Readable(paths[j])
          /\ paths[j] \notin Range(self[1].dependents)
          /\ paths[j + 1] \in Range(self[1].dependents)
    /\ self[1].errors = <<>>

====
